---- MODULE Spec2Model ----
(***************************************************************************)
(* Model of tsp.py: the greedy nearest-unvisited router (greedy_tsp) and   *)
(* the exact backtracking router with branch-and-bound pruning and a       *)
(* decision trace (backtracking_tsp).  Both routers are pure functions of  *)
(* their arguments; they are modelled as operators, and the state machine  *)
(* draws a graph and a start node and applies one router to them.          *)
(***************************************************************************)
EXTENDS Integers, Sequences, FiniteSets, TLC

\* float('inf'): larger than every sum of stored costs the model can form.
INF == 2000000000

\* The large-number threshold of greedy_tsp (cost >= 999999).
Sentinel == 999999

\* Marks a key that is absent from graph[u] (the "v in neighbors" test fails).
NoEdge == -1

\* Ordinary stored costs range over 0..MaxCost.
MaxCost == 1

(***************************************************************************)
(* Graphs.  A graph is a record: nodes is the dict's key order             *)
(* (list(graph.keys())), cost maps a pair <<u, v>> to the stored cost of   *)
(* graph[u][v], or NoEdge when v is not a key of graph[u].                 *)
(***************************************************************************)
Names == <<"A", "B", "C", "D">>

\* A start node that is a key of no graph.
Missing == "Z"

NodeSeq(n) == SubSeq(Names, 1, n)

NodeSet(g) == {g.nodes[i] : i \in 1..Len(g.nodes)}

AllPairs(n) == {<<Names[i], Names[j]>> : i, j \in 1..n}

OffDiag(n) == {p \in AllPairs(n) : p[1] # p[2]}

\* What graph[u][v] can be: an ordinary cost, the threshold value, infinity,
\* or no entry.
EdgeVals == (0..MaxCost) \cup {Sentinel, INF, NoEdge}

\* The same with only the least and the greatest ordinary cost.
ExtremeVals == {0, MaxCost, Sentinel, INF, NoEdge}

\* The single-node graphs: the one self entry is any stored value or absent.
SingleGraphs ==
    {[nodes |-> NodeSeq(1), cost |-> [p \in AllPairs(1) |-> v]] : v \in EdgeVals}

\* Every directed graph on n >= 2 nodes with entries in vals; self costs
\* are 0 by convention (no router reads them when n >= 2).
GeneralGraphs(n, vals) ==
    {[nodes |-> NodeSeq(n),
      cost  |-> [p \in AllPairs(n) |-> IF p[1] = p[2] THEN 0 ELSE f[p]]]
        : f \in [OffDiag(n) -> vals]}

UPairs(n) == {{Names[i], Names[j]} : i, j \in 1..n} \ {{Names[i]} : i \in 1..n}

\* Complete graphs on four nodes with a symmetric stored numeric cost.
SymGraphs ==
    {[nodes |-> NodeSeq(4),
      cost  |-> [p \in AllPairs(4) |-> IF p[1] = p[2] THEN 0 ELSE f[{p[1], p[2]}]]]
        : f \in [UPairs(4) -> (0..MaxCost) \cup {Sentinel}]}

\* Scenario 1 of the specification: {A:{B:1,C:4}, B:{A:1,C:2}, C:{A:4,B:2}}.
Scenario1Graph ==
    [nodes |-> NodeSeq(3),
     cost  |-> [p \in AllPairs(3) |->
                  IF p[1] = p[2] THEN NoEdge
                  ELSE IF {p[1], p[2]} = {"A", "B"} THEN 1
                  ELSE IF {p[1], p[2]} = {"B", "C"} THEN 2
                  ELSE 4]]

EmptyGraph == [nodes |-> <<>>, cost |-> <<>>]

Graphs ==
    {EmptyGraph} \cup SingleGraphs \cup GeneralGraphs(2, EdgeVals)
        \cup GeneralGraphs(3, ExtremeVals) \cup SymGraphs \cup {Scenario1Graph}

\* graph[u][v] when v is a key of graph[u], NoEdge otherwise.
Stored(g, u, v) == g.cost[<<u, v>>]

\* v in graph[u]
HasEdge(g, u, v) == Stored(g, u, v) # NoEdge

\* Addition with float('inf') absorbing.
Add(a, b) == IF a >= INF \/ b >= INF THEN INF ELSE a + b

RECURSIVE Perms(_)
Perms(S) ==
    IF S = {} THEN {<<>>}
    ELSE UNION {{<<x>> \o p : p \in Perms(S \ {x})} : x \in S}

RECURSIVE Without(_, _)
Without(s, x) ==
    IF s = <<>> THEN <<>>
    ELSE IF Head(s) = x THEN Without(Tail(s), x)
    ELSE <<Head(s)>> \o Without(Tail(s), x)

(***************************************************************************)
(* Results.  status is "ok" for a return, "KeyError" or "ValueError" for   *)
(* a raised exception (then route, cost and steps carry nothing).          *)
(***************************************************************************)
Result(status, route, cost, steps) ==
    [status |-> status, route |-> route, cost |-> cost, steps |-> steps]

EmptyResult == Result("ok", <<>>, 0, <<>>)

\* Variant: the missing start node is answered like the empty graph.
NotFoundAs(start) == Result("ok", <<>>, 0, <<>>)
\* raise KeyError(f"Start node {start!r} not in graph")
NotFound(start) == Result("KeyError", <<>>, 0, <<>>)

\* raise ValueError(...)
Infeasible == Result("ValueError", <<>>, 0, <<>>)

(***************************************************************************)
(* greedy_tsp                                                              *)
(***************************************************************************)
\* cost == float('inf') or cost >= 999999
IsInfinite(cost) == cost = INF \/ cost >= Sentinel

\* The body of "for v in unvisited": the entries v adds to candidates.
CandidateOf(g, current, v, allow) ==
    IF HasEdge(g, current, v)
    THEN LET cost == Stored(g, current, v)
         IN  IF IsInfinite(cost)
             THEN IF allow THEN <<<<v, cost>>>> ELSE <<>>
             ELSE <<<<v, cost>>>>
    ELSE IF allow THEN <<<<v, INF>>>> ELSE <<>>

\* candidates, in the iteration order of unvisited.
RECURSIVE Candidates(_, _, _, _)
Candidates(g, current, unvisited, allow) ==
    IF unvisited = <<>> THEN <<>>
    ELSE CandidateOf(g, current, Head(unvisited), allow)
             \o Candidates(g, current, Tail(unvisited), allow)

\* Variant: the first candidate is taken, whatever its cost.
MinCandidateAs(candidates) == candidates[1]
\* min(candidates, key=lambda x: x[1]): the first candidate of least cost.
MinCandidate(candidates) ==
    LET least == CHOOSE i \in 1..Len(candidates) :
                     /\ \A j \in 1..Len(candidates) :
                            candidates[i][2] <= candidates[j][2]
                     /\ \A j \in 1..(i - 1) :
                            candidates[j][2] > candidates[i][2]
    IN  candidates[least]

\* Variant: the route is left open.
CloseRouteAs(route, start) == route
\* route.append(start)
CloseRoute(route, start) == Append(route, start)

\* "Return to start": the closing cost, and the return or the error.
GreedyClose(g, start, allow, route, total_cost, current) ==
    IF HasEdge(g, current, start)
    THEN LET stored == Stored(g, current, start)
             return_cost == IF stored >= Sentinel THEN INF ELSE stored
         IN  Result("ok", CloseRoute(route, start), Add(total_cost, return_cost), <<>>)
    ELSE IF allow
    THEN Result("ok", CloseRoute(route, start), Add(total_cost, INF), <<>>)
    ELSE Infeasible

\* "while unvisited": unvisited is the set in its iteration order.
RECURSIVE GreedyLoop(_, _, _, _, _, _, _)
GreedyLoop(g, start, allow, route, total_cost, current, unvisited) ==
    IF unvisited = <<>>
    THEN GreedyClose(g, start, allow, route, total_cost, current)
    ELSE LET candidates == Candidates(g, current, unvisited, allow)
         IN  IF candidates = <<>> /\ ~allow
             THEN Infeasible
             ELSE LET pick == IF candidates = <<>>
                              THEN <<Head(unvisited), INF>>
                              ELSE MinCandidate(candidates)
                  IN  GreedyLoop(g, start, allow,
                                 Append(route, pick[1]),
                                 Add(total_cost, pick[2]),
                                 pick[1],
                                 Without(unvisited, pick[1]))

\* greedy_tsp(graph, start, allow_disconnected); order is the iteration order
\* of the set unvisited = nodes - {start}.
GreedyTsp(g, start, allow, order) ==
    IF Len(g.nodes) = 0 THEN EmptyResult
    ELSE IF start \notin NodeSet(g) THEN NotFound(start)
    ELSE LET unvisited == Without(order, start)
         IN  IF unvisited = <<>>
             THEN Result("ok", <<start, start>>, 0, <<>>)
             ELSE GreedyLoop(g, start, allow, <<start>>, 0, start, unvisited)

(***************************************************************************)
(* backtracking_tsp.  Node indices are 1..n here (0..n-1 in the source);   *)
(* depth counts from 0 as in the source.                                   *)
(***************************************************************************)
\* dist[i][j]: INF, overwritten by the stored cost when the entry exists.
Dist(g) ==
    [i \in 1..Len(g.nodes) |-> [j \in 1..Len(g.nodes) |->
        IF HasEdge(g, g.nodes[i], g.nodes[j])
        THEN Stored(g, g.nodes[i], g.nodes[j])
        ELSE INF]]

\* node_to_idx[node]
NodeToIdx(g, node) == CHOOSE i \in 1..Len(g.nodes) : g.nodes[i] = node

\* [idx_to_node[i] for i in path]
PathNames(g, path) == [k \in 1..Len(path) |-> g.nodes[path[k]]]

\* One record of steps.  kind stands for the 'reason' text and the
\* 'is_solution' flag: "Expand" (no reason), "Prune", "NewBest", "NoReturn",
\* "NoMoves".
Step(kind, depth, node, cost, path, visited, is_backtrack) ==
    [kind |-> kind, depth |-> depth, current_node |-> node,
     current_cost |-> cost, path |-> path, visited |-> visited,
     is_backtrack |-> is_backtrack]

\* Variant: the bound cuts one unit early.
ShouldPruneAs(current_cost, best_cost) == current_cost + 1 >= best_cost
\* if current_cost >= best_cost
ShouldPrune(current_cost, best_cost) == current_cost >= best_cost

\* Variant: the closing edge is left out of the total.
TotalCostAs(current_cost, return_cost) == current_cost
\* total_cost = current_cost + return_cost
TotalCost(current_cost, return_cost) == current_cost + return_cost

\* Variant: every closed tour replaces the best one.
IsBetterAs(total_cost, best_cost) == TRUE
\* if total_cost < best_cost
IsBetter(total_cost, best_cost) == total_cost < best_cost

\* if not visited[next_idx] and dist[current_pos][next_idx] != INF
CanBranch(ctx, visited, current_pos, next_idx) ==
    ~visited[next_idx] /\ ctx.dist[current_pos][next_idx] # INF

\* if depth > 0, after the loop over next_idx
RecordsNoMoves(depth) == depth > 0

\* The search state S is [best_cost, best_path, steps] (the nonlocal
\* variables); ctx is [g, n, dist, start_idx, prune], where prune = FALSE
\* gives the search with the pruning rule removed.
RECURSIVE backtrack(_, _, _, _, _, _, _)
RECURSIVE BranchLoop(_, _, _, _, _, _, _, _)
backtrack(ctx, current_pos, current_cost, path, visited, depth, S) ==
    LET here(kind, isb) ==
            Step(kind, depth, ctx.g.nodes[current_pos], current_cost,
                 PathNames(ctx.g, path), visited, isb)
        S1 == [S EXCEPT !.steps = Append(@, here("Expand", FALSE))]
    IN  IF ctx.prune /\ ShouldPrune(current_cost, S1.best_cost)
        THEN [S1 EXCEPT !.steps = Append(@, here("Prune", TRUE))]
        ELSE IF Len(path) = ctx.n
        THEN LET return_cost == ctx.dist[current_pos][ctx.start_idx]
             IN  IF return_cost # INF
                 THEN LET total_cost == TotalCost(current_cost, return_cost)
                          best_path  == Append(path, ctx.start_idx)
                      IN  IF IsBetter(total_cost, S1.best_cost)
                          THEN [best_cost |-> total_cost,
                                best_path |-> best_path,
                                steps |-> Append(S1.steps,
                                    Step("NewBest", depth, ctx.g.nodes[ctx.start_idx],
                                         total_cost, PathNames(ctx.g, best_path),
                                         visited, FALSE))]
                          ELSE S1
                 ELSE [S1 EXCEPT !.steps = Append(@, here("NoReturn", TRUE))]
        ELSE LET S2 == BranchLoop(ctx, 1, current_pos, current_cost, path,
                                  visited, depth, S1)
             IN  IF RecordsNoMoves(depth)
                 THEN [S2 EXCEPT !.steps = Append(@, here("NoMoves", TRUE))]
                 ELSE S2

\* for next_idx in range(n): visit, recurse, un-visit.
BranchLoop(ctx, next_idx, current_pos, current_cost, path, visited, depth, S) ==
    IF next_idx > ctx.n THEN S
    ELSE BranchLoop(ctx, next_idx + 1, current_pos, current_cost, path,
                    visited, depth,
                    IF CanBranch(ctx, visited, current_pos, next_idx)
                    THEN backtrack(ctx, next_idx,
                                   current_cost + ctx.dist[current_pos][next_idx],
                                   Append(path, next_idx),
                                   [visited EXCEPT ![next_idx] = TRUE],
                                   depth + 1, S)
                    ELSE S)

\* The search from the start node, with or without the pruning rule.
Search(g, start, prune) ==
    LET n == Len(g.nodes)
        start_idx == NodeToIdx(g, start)
        ctx == [g |-> g, n |-> n, dist |-> Dist(g), start_idx |-> start_idx,
                prune |-> prune]
    IN  backtrack(ctx, start_idx, 0, <<start_idx>>,
                  [i \in 1..n |-> i = start_idx], 0,
                  [best_cost |-> INF, best_path |-> <<>>, steps |-> <<>>])

\* backtracking_tsp(graph, start), and the same with the pruning rule removed.
ExactTsp(g, start, prune) ==
    IF Len(g.nodes) = 0 THEN EmptyResult
    ELSE IF start \notin NodeSet(g) THEN NotFound(start)
    ELSE IF Len(g.nodes) = 1 THEN Result("ok", <<start, start>>, 0, <<>>)
    ELSE LET S == Search(g, start, prune)
         IN  IF S.best_cost = INF
             THEN Result("ok", <<>>, 0, S.steps)
             ELSE Result("ok", PathNames(g, S.best_path), S.best_cost, S.steps)

BacktrackingTsp(g, start) == ExactTsp(g, start, TRUE)

(***************************************************************************)
(* The state machine: a caller holds a graph and a start node and calls    *)
(* one of the routers on them.                                             *)
(***************************************************************************)
VARIABLES graph, start, out

vars == <<graph, start, out>>

\* What a call leaves: which router ran, its arguments, and its result.
Out(op, allow, order, res) ==
    [op |-> op, allow |-> allow, order |-> order, res |-> res]

NoCall == Out("none", FALSE, <<>>, Result("none", <<>>, 0, <<>>))

Init ==
    /\ graph \in Graphs
    /\ start \in NodeSet(graph) \cup {Missing}
    /\ out = NoCall

\* The iteration orders the set unvisited = nodes - {start} can have; a call
\* that returns or raises before line 26 builds no such set.
Orders(g, s) == IF s \in NodeSet(g) THEN Perms(NodeSet(g) \ {s}) ELSE {<<>>}

\* route, cost = greedy_tsp(graph, start, allow_disconnected)
CallGreedy ==
    /\ out = NoCall
    /\ \E allow \in BOOLEAN, order \in Orders(graph, start) :
           out' = Out("greedy", allow, order, GreedyTsp(graph, start, allow, order))
    /\ UNCHANGED <<graph, start>>

\* route, cost, steps = backtracking_tsp(graph, start)
CallBacktracking ==
    /\ out = NoCall
    /\ out' = Out("exact", FALSE, <<>>, BacktrackingTsp(graph, start))
    /\ UNCHANGED <<graph, start>>

Next == CallGreedy \/ CallBacktracking

Spec == Init /\ [][Next]_vars

(***************************************************************************)
(* Definitions the claims are stated with.                                 *)
(***************************************************************************)
N == Len(graph.nodes)

StartInGraph == start \in NodeSet(graph)

res == out.res

\* The closed tours from s through every node exactly once.
RefTours(g, s) == {<<s>> \o p \o <<s>> : p \in Perms(NodeSet(g) \ {s})}

\* The legs a route travels.  The tour of a single-node graph is the
\* degenerate one, [start, start] at cost 0: it travels no edge.
Legs(g, route) == IF Len(g.nodes) = 1 THEN {} ELSE 1..(Len(route) - 1)

\* The edge is stored and its stored cost is not float('inf').
FiniteEdge(g, u, v) == HasEdge(g, u, v) /\ Stored(g, u, v) # INF

FeasibleTour(g, route) ==
    \A k \in Legs(g, route) : FiniteEdge(g, route[k], route[k + 1])

RECURSIVE SumLegs(_, _, _)
SumLegs(g, route, legs) ==
    IF legs = {} THEN 0
    ELSE LET k == CHOOSE x \in legs : TRUE
         IN  Stored(g, route[k], route[k + 1]) + SumLegs(g, route, legs \ {k})

\* The sum of the stored costs of a feasible route's edges.
RouteCost(g, route) == SumLegs(g, route, Legs(g, route))

FeasibleTours(g, s) == {t \in RefTours(g, s) : FeasibleTour(g, t)}

\* start first and last, every other node exactly once in between.
RoundTrip(g, s, route) ==
    /\ Len(route) = Len(g.nodes) + 1
    /\ route[1] = s
    /\ route[Len(route)] = s
    /\ {route[k] : k \in 2..Len(g.nodes)} = NodeSet(g) \ {s}

\* A finite, symmetric stored cost on every pair of distinct nodes.
CompleteSymmetric(g) ==
    \A u, v \in NodeSet(g) :
        u # v => /\ FiniteEdge(g, u, v)
                 /\ Stored(g, u, v) = Stored(g, v, u)

StepsOfKind(steps, kind) == {i \in 1..Len(steps) : steps[i].kind = kind}

\* unvisited, in its iteration order, once route[1..k] has been visited.
UnvisitedAfter(order, route, k) ==
    SelectSeq(order, LAMBDA x : x \notin {route[j] : j \in 1..k})

\* Several candidates share the least cost at the k-th choice of a greedy run.
TieAt(g, allow, order, route, k) ==
    LET cands == Candidates(g, route[k], UnvisitedAfter(order, route, k), allow)
        costs == {cands[i][2] : i \in 1..Len(cands)}
        least == CHOOSE c \in costs : \A d \in costs : c <= d
    IN  Cardinality({i \in 1..Len(cands) : cands[i][2] = least}) > 1

\* No choice of the greedy run that returned route met a tie.
TieFree(g, allow, order, route) ==
    \A k \in 1..(Len(route) - 2) : ~TieAt(g, allow, order, route, k)

(***************************************************************************)
(* C1.  On a non-empty graph with its start node, backtracking_tsp returns *)
(* what an exhaustive search over all closed tours returns: when some tour *)
(* uses only stored, non-infinite edges, the least total cost of such      *)
(* tours and a tour of that cost; otherwise the empty route and cost 0.    *)
(***************************************************************************)
C1_ExactIsOptimal ==
    (out.op = "exact" /\ N > 0 /\ StartInGraph) =>
        LET feasible == FeasibleTours(graph, start)
        IN  /\ res.status = "ok"
            /\ IF feasible # {}
               THEN /\ res.route \in feasible
                    /\ RouteCost(graph, res.route) = res.cost
                    /\ \A t \in feasible : res.cost <= RouteCost(graph, t)
               ELSE res.route = <<>> /\ res.cost = 0

\* The search met tours of different cost, pruned a branch and returned one.
C1_Witness ==
    /\ out.op = "exact" /\ N >= 3 /\ StartInGraph
    /\ \E t, u \in FeasibleTours(graph, start) :
           RouteCost(graph, t) # RouteCost(graph, u)
    /\ StepsOfKind(res.steps, "Prune") # {}
    /\ res.route # <<>>

\* An exact search that found no tour at all.
C1_WitnessNoTour ==
    /\ out.op = "exact" /\ N >= 3 /\ StartInGraph
    /\ FeasibleTours(graph, start) = {}
    /\ res.route = <<>>

(***************************************************************************)
(* C2.  Every non-empty route greedy_tsp returns in permissive mode, and   *)
(* every non-empty route backtracking_tsp returns, starts and ends at the  *)
(* start node and holds every other node exactly once in between (N + 1    *)
(* elements); on a single-node graph it is [start, start] at cost 0.       *)
(***************************************************************************)
C2_RoundTrip ==
    (/\ \/ out.op = "greedy" /\ out.allow
        \/ out.op = "exact"
     /\ res.status = "ok"
     /\ res.route # <<>>) =>
        /\ RoundTrip(graph, start, res.route)
        /\ N = 1 => (res.route = <<start, start>> /\ res.cost = 0)

\* A permissive greedy run that closed a tour over a disconnected graph.
C2_Witness ==
    /\ out.op = "greedy" /\ out.allow
    /\ N >= 3
    /\ res.status = "ok"
    /\ Len(res.route) = N + 1
    /\ res.cost = INF

(***************************************************************************)
(* C3.  On a complete graph with a finite symmetric cost on every pair,    *)
(* the cost backtracking_tsp returns is at most the cost greedy_tsp        *)
(* returns for the same graph and start node.                              *)
(***************************************************************************)
C3_ExactDominatesGreedy ==
    (out.op = "exact" /\ N > 0 /\ StartInGraph /\ CompleteSymmetric(graph)) =>
        \A allow \in BOOLEAN, order \in Orders(graph, start) :
            LET greedy == GreedyTsp(graph, start, allow, order)
            IN  greedy.status = "ok" =>
                    /\ res.route # <<>>
                    /\ res.cost <= greedy.cost

\* A complete symmetric graph on which greedy is strictly worse than exact.
C3_Witness ==
    /\ out.op = "exact" /\ N = 4 /\ StartInGraph /\ CompleteSymmetric(graph)
    /\ \E order \in Orders(graph, start) :
           LET greedy == GreedyTsp(graph, start, TRUE, order)
           IN  greedy.status = "ok" /\ greedy.cost < INF /\ res.cost < greedy.cost

(***************************************************************************)
(* C4.  In strict mode (allow_disconnected = False) a successful return of *)
(* greedy_tsp carries a finite total cost: an absent or INFINITE edge      *)
(* (stored cost infinite or at or above 999999) on the way, the closing    *)
(* edge included, makes the call fail instead.                             *)
(***************************************************************************)
C4_StrictReturnIsFinite ==
    (out.op = "greedy" /\ ~out.allow /\ N >= 2 /\ res.status = "ok") =>
        /\ res.cost < INF
        /\ \A k \in 1..(Len(res.route) - 1) :
               /\ HasEdge(graph, res.route[k], res.route[k + 1])
               /\ ~IsInfinite(Stored(graph, res.route[k], res.route[k + 1]))

(***************************************************************************)
(* C5.  No router returns a finite total cost for a route that contains an *)
(* edge whose stored cost is at or above 999999.                           *)
(***************************************************************************)
C5_SentinelIsInfinite ==
    (/\ out.op \in {"greedy", "exact"}
     /\ N >= 2
     /\ res.status = "ok"
     /\ \E k \in 1..(Len(res.route) - 1) :
            /\ HasEdge(graph, res.route[k], res.route[k + 1])
            /\ Stored(graph, res.route[k], res.route[k + 1]) >= Sentinel) =>
        res.cost = INF

\* The same, of greedy_tsp alone.
C5_GreedySentinelIsInfinite ==
    out.op = "greedy" => C5_SentinelIsInfinite

\* The same, of backtracking_tsp alone.
C5_ExactSentinelIsInfinite ==
    out.op = "exact" => C5_SentinelIsInfinite

(***************************************************************************)
(* C6.  The search with the pruning rule removed returns the same cost,    *)
(* and finds a tour in the same cases, as backtracking_tsp.                *)
(***************************************************************************)
C6_PruningKeepsOptimum ==
    (out.op = "exact" /\ N > 0 /\ StartInGraph) =>
        LET unpruned == ExactTsp(graph, start, FALSE)
        IN  /\ unpruned.cost = res.cost
            /\ (unpruned.route = <<>>) <=> (res.route = <<>>)

\* The pruning rule cut a branch above the leaves and a tour was returned.
C6_Witness ==
    /\ out.op = "exact" /\ StartInGraph
    /\ res.route # <<>>
    /\ \E i \in StepsOfKind(res.steps, "Prune") : Len(res.steps[i].path) < N
    /\ Cardinality(StepsOfKind(ExactTsp(graph, start, FALSE).steps, "Expand"))
           > Cardinality(StepsOfKind(res.steps, "Expand"))

(***************************************************************************)
(* C7, as claimed.  The result of greedy_tsp does not depend on the order  *)
(* in which the set of unvisited nodes is iterated.                        *)
(***************************************************************************)
C7_OrderIndependent ==
    out.op = "greedy" =>
        \A order \in Orders(graph, start) :
            GreedyTsp(graph, start, out.allow, order) = res

(***************************************************************************)
(* C7, as amended.  A greedy run that returned and met no tie for the      *)
(* least cost at any of its choices returns the same route and cost under  *)
(* every iteration order of the set of unvisited nodes.                    *)
(***************************************************************************)
C7_TieFreeOrderIndependent ==
    (/\ out.op = "greedy"
     /\ res.status = "ok"
     /\ TieFree(graph, out.allow, out.order, res.route)) =>
        \A order \in Orders(graph, start) :
            GreedyTsp(graph, start, out.allow, order) = res

\* A tie-free run on four nodes whose iteration order is not the key order.
C7_Witness ==
    /\ out.op = "greedy" /\ N = 4 /\ StartInGraph
    /\ res.status = "ok"
    /\ TieFree(graph, out.allow, out.order, res.route)
    /\ out.order # Without(graph.nodes, start)
    /\ res.route[2] # out.order[1]

(***************************************************************************)
(* C8, as claimed.  For every graph and every start node that is not a     *)
(* node of it, both routers fail with the node-not-found error.            *)
(***************************************************************************)
C8_MissingStartFails ==
    (out.op # "none" /\ ~StartInGraph) => res.status = "KeyError"

(***************************************************************************)
(* C8, as amended.  For every non-empty graph and every start node that is *)
(* not a node of it, both routers fail with the node-not-found error and   *)
(* return no route, cost or trace.                                         *)
(***************************************************************************)
C8_MissingStartFailsNonEmpty ==
    (out.op # "none" /\ ~StartInGraph /\ N > 0) =>
        /\ res.status = "KeyError"
        /\ res.route = <<>>
        /\ res.steps = <<>>

\* backtracking_tsp called on a three-node graph with a foreign start node.
C8_Witness ==
    out.op = "exact" /\ ~StartInGraph /\ N = 3 /\ res.status = "KeyError"

(***************************************************************************)
(* C9, as claimed.  On {A:{B:1,C:4}, B:{A:1,C:2}, C:{A:4,B:2}} with start  *)
(* A, backtracking_tsp returns the route [A,B,C,A] with cost 4.            *)
(***************************************************************************)
C9_Scenario1Cost4 ==
    (out.op = "exact" /\ graph = Scenario1Graph /\ start = "A") =>
        res.route = <<"A", "B", "C", "A">> /\ res.cost = 4

(***************************************************************************)
(* C9, as amended.  On that graph with start A, backtracking_tsp returns   *)
(* the route [A,B,C,A] with cost 7 (1 + 2 + 4).                            *)
(***************************************************************************)
C9_Scenario1Cost7 ==
    (out.op = "exact" /\ graph = Scenario1Graph /\ start = "A") =>
        res.route = <<"A", "B", "C", "A">> /\ res.cost = 7

\* backtracking_tsp has run on the scenario's graph from A.
C9_Witness ==
    out.op = "exact" /\ graph = Scenario1Graph /\ start = "A" /\ res.status = "ok"

(***************************************************************************)
(* C10.  The trace holds a "No more valid moves" step for an expansion     *)
(* exactly when the expansion is below the root, was neither pruned nor a  *)
(* goal test, and had no unvisited node at a finite cost to branch to.     *)
(***************************************************************************)
C10_NoMovesOnlyAtDeadEnds ==
    (out.op = "exact" /\ res.status = "ok") =>
        \A i \in StepsOfKind(res.steps, "Expand") :
            LET e == res.steps[i]
                current == e.path[Len(e.path)]
                seen == {e.path[k] : k \in 1..Len(e.path)}
                recorded == \E j \in StepsOfKind(res.steps, "NoMoves") :
                                res.steps[j].path = e.path
                pruned == \E j \in StepsOfKind(res.steps, "Prune") :
                              res.steps[j].path = e.path
                goal == Len(e.path) = N
                deadEnd == \A v \in NodeSet(graph) \ seen :
                               ~FiniteEdge(graph, current, v)
            IN  recorded <=> (e.depth > 0 /\ ~pruned /\ ~goal /\ deadEnd)

====
